---- MODULE Spec2Model ----
(***************************************************************************)
(* A model of the hardware_device_base drivers.                            *)
(*                                                                         *)
(* Three driver variants live in the repository and are modelled side by   *)
(* side (the variable `variant` is fixed at construction):                 *)
(*   Canonical : examples/example_hardware_device.py  ExampleHardwareDevice*)
(*               on src/hardware_device_base.py (status register, lock,    *)
(*               parameter validation)                                     *)
(*   DraftED   : example_device.py  ExampleDevice on device_base.py        *)
(*   DraftEHD  : example_hardware_device.py ExampleHardwareDevice on the   *)
(*               older hardware_device_base.py                             *)
(*                                                                         *)
(* Caller threads run the driver's methods concurrently.  Every read or    *)
(* write of an attribute of the driver (self.connected, self.sock,         *)
(* self.status, self.status_string, self.lock) is one atomic step; a       *)
(* thread's position inside a method is pc[t] and its locals are loc[t].   *)
(* The driver is constructed with log=True (the default), so self.logger   *)
(* is a logger object and the logging calls have no effect on the state.   *)
(* A socket that becomes unreachable is not closed by the model: the       *)
(* driver itself never closes it.                                          *)
(***************************************************************************)
EXTENDS Integers, Sequences, FiniteSets, TLC

\* ------------------------------------------------------------------ bounds
MaxThreads == 2
MaxCalls == 3
MaxMotionCalls == 5
MaxPos == 3

Threads == 1..MaxThreads
\* every call opens at most one socket
Handles == 1..MaxCalls

\* ------------------------------------------------------------ Python values
None == 0

PyStr(s) == [ty |-> "str", s |-> s, n |-> 0]
PyInt(n) == [ty |-> "int", s |-> "", n |-> n]
PyFloat(n) == [ty |-> "float", s |-> "", n |-> n]
PyBool(b) == [ty |-> "bool", s |-> "", n |-> IF b THEN 1 ELSE 0]
NoneValue == [ty |-> "NoneType", s |-> "", n |-> 0]
\* an exception object propagating out of a method
Exc(name) == [ty |-> "exception", s |-> name, n |-> 0]

\* isinstance(v, str), isinstance(v, int)
IsStr(v) == v.ty = "str"
IsInt(v) == v.ty \in {"int", "bool"}

\* str(v) as used by the f-strings
Fmt(v) == IF v.ty = "str" THEN v.s ELSE IF v.ty = "NoneType" THEN "None" ELSE ToString(v.n)

RECURSIVE ReprTuple(_)
ReprTuple(args) ==
    IF args = <<>> THEN <<>> ELSE <<Fmt(Head(args))>> \o ReprTuple(Tail(args))

\* the positional-argument tuples handed to connect
ArgTuples ==
    { <<>>,
      <<PyStr("h")>>,
      <<PyStr("h"), PyInt(9)>>,
      <<PyStr("h"), PyInt(-1)>>,
      <<PyInt(5), PyInt(9)>>,
      <<PyStr("h"), PyStr("p")>>,
      <<PyStr("h"), PyFloat(9)>>,
      <<PyStr("h"), PyInt(9), PyInt(1)>> }

GoodArgs == <<PyStr("h"), PyInt(9)>>

\* the (args, con_type) pairs handed to connect
ConnectInputs ==
    { <<a, "tcp">> : a \in ArgTuples }
        \cup { <<GoodArgs, "serial">>, <<GoodArgs, "udp">>, <<<<PyStr("h")>>, "serial">> }

\* (host, port) pairs handed to the draft drivers' connect(host, port)
DraftInputs == { <<PyStr("h"), PyInt(9)>>, <<PyStr("h"), PyInt(-1)>> }

\* strings are sequences of characters
TEMPERATURE == <<"t", "e", "m", "p">>
Items == { <<>>, TEMPERATURE, <<"x">> \o TEMPERATURE \o <<"y">>, <<"b", "o", "g">>, <<"t", "e", "m">> }
Commands == { <<"a">> }
CommandArgs == { <<>>, << <<"x">> >>, << <<"x">>, <<"y">> >> }

\* the inputs of the concurrent specification
RaceConnectInputs ==
    { <<GoodArgs, "tcp">>, <<GoodArgs, "serial">> }
RaceItems == { <<"b", "o", "g">> }
RaceCommandArgs == { <<>>, << <<"x">> >> }

\* needle in hay (Python's `in` on strings)
Contains(hay, needle) ==
    \E i \in 0..(Len(hay) - Len(needle)) : SubSeq(hay, i + 1, i + Len(needle)) = needle

\* sep.join(parts)
RECURSIVE Join(_, _)
Join(sep, parts) ==
    IF parts = <<>> THEN <<>>
    ELSE IF Len(parts) = 1 THEN Head(parts)
    ELSE Head(parts) \o sep \o Join(sep, Tail(parts))

\* the value get_atomic_value returns for the temperature item (10.5)
TEMP == PyFloat(105)

Canonical == "examples/example_hardware_device.py"
DraftED == "example_device.py"
DraftEHD == "example_hardware_device.py"
Variants == {Canonical, DraftED, DraftEHD}

\* -------------------------------------------------------------------- state
VARIABLES
    variant,        \* which driver class was constructed
    connected,      \* self.connected
    sock,           \* self.sock: None or a socket handle
    handles,        \* the sockets: "free" | "open" | "connected" | "closed"
    lock,           \* self.lock: 0 when free, else the holding thread
    status,         \* self.status
    status_string,  \* self.status_string (a sequence of string pieces)
    pc,             \* each thread's position
    loc,            \* each thread's locals and per-call record
    wire,           \* every byte written to the transport, tagged with its writer
    ncalls,         \* calls started so far
    nsent,          \* sendall calls that returned normally
    everConnect,    \* a connect call has been started
    last,           \* the caller's note of the most recently finished call
    motion,         \* a motion device: homed, closed loop, position, limits
    verbose         \* self.verbose

vars == <<variant, connected, sock, handles, lock, status, status_string,
          pc, loc, wire, ncalls, nsent, everConnect, last, motion, verbose>>

shared == <<connected, sock, handles, lock, status, status_string, wire, nsent>>

\* what a caller remembers of the call before: its method, what is_connected()
\* returned and whether self.sock was a connected socket as it started, how it
\* ended and how often it closed the socket
NoBrief == [op |-> "none", conn0 |-> FALSE, live0 |-> FALSE, res |-> "ok", closes |-> 0]

Brief(r) ==
    [op |-> r.op, conn0 |-> r.conn0, live0 |-> r.live0, res |-> r.res, closes |-> r.closes]

\* a thread's locals: the method and its arguments, validate_connection_params'
\* answer, the text to send and the bytes sent, the socket loaded from
\* self.sock, the pending _set_status argument and what follows it, the
\* outcome and return value, the caller's bookkeeping (conn0, live0, closes,
\* pred), and the items get_status has read so far (got)
NoCall ==
    [op |-> "none", args |-> <<>>, ct |-> "", valid |-> FALSE, payload |-> <<>>, pos |-> 0,
     h |-> None, pend |-> <<0, <<>>>>, nxt |-> "ret", res |-> "ok", ret |-> NoneValue,
     conn0 |-> FALSE, live0 |-> FALSE, closes |-> 0, pred |-> NoBrief,
     got |-> <<0, <<>>>>]

NoRecord ==
    [op |-> "none", args |-> <<>>, res |-> "ok", ret |-> NoneValue, conn0 |-> FALSE,
     live0 |-> FALSE, closes |-> 0, pred |-> NoBrief]

Untracked == [NoRecord EXCEPT !.op = "untracked"]

\* the drivers of this module are no motion devices
NoMotion == [homed |-> FALSE, closed |-> FALSE, pos |-> 0, limits |-> <<0, 0>>]

\* HardwareDeviceBase.__init__ and the example drivers' __init__
Init ==
    /\ variant \in Variants
    /\ connected = FALSE
    /\ sock = None
    /\ handles = [h \in Handles |-> "free"]
    /\ lock = 0
    /\ status = 0
    /\ status_string = <<>>
    /\ pc = [t \in Threads |-> "idle"]
    /\ loc = [t \in Threads |-> NoCall]
    /\ wire = <<>>
    /\ ncalls = 0
    /\ nsent = 0
    /\ everConnect = FALSE
    /\ verbose = FALSE
    /\ last = NoRecord
    /\ motion = NoMotion

\* ------------------------------------------------------------ call plumbing
\* the callers keep notes of their calls and make them one at a time
TakingTurns == last.op # "untracked"

\* A caller thread enters a method.  Idle threads hold no state and are
\* interchangeable, so a new call is always given to the lowest idle thread.
CanCall(t) ==
    /\ pc[t] = "idle"
    /\ \A u \in Threads : u < t => pc[u] # "idle"
    /\ TakingTurns => \A u \in Threads : pc[u] = "idle"
    /\ ncalls < MaxCalls

\* the next unused socket
NewHandle == Cardinality({h \in Handles : handles[h] # "free"}) + 1

\* self.sock is a socket connected to the device (noted only by callers that
\* keep notes)
Live == last # Untracked /\ sock # None /\ handles[sock] = "connected"

Enter(t, op, observed) ==
    [NoCall EXCEPT !.op = op, !.conn0 = observed, !.live0 = Live, !.pred = Brief(last)]

\* the caller's note of a finished call; no note is kept where `last` starts
\* out as Untracked
Note(record) == IF last = Untracked THEN last ELSE record

\* the method returns (res "ok" or "fail") or raises (res "raise")
Return(t, res, ret) ==
    /\ pc' = [pc EXCEPT ![t] = "idle"]
    /\ loc' = [loc EXCEPT ![t] = NoCall]
    /\ last' = Note([op |-> loc[t].op, args |-> loc[t].args, res |-> res, ret |-> ret,
                     conn0 |-> loc[t].conn0, live0 |-> loc[t].live0,
                     closes |-> loc[t].closes, pred |-> loc[t].pred])

\* HardwareDeviceBase.is_connected
is_connected == connected

\* ExampleDevice.is_connected
ED_is_connected == sock # None

\* ------------------------------------------------- HardwareDeviceBase (src/src)
\* validate_connection_params(args): args is the tuple of connect's positionals
validate_connection_params(args) ==
    IF Len(args) < 2 THEN FALSE
    ELSE IF ~IsStr(args[1]) THEN FALSE
    ELSE IF ~IsInt(args[2]) THEN FALSE
    ELSE TRUE

\* a call of self._set_status((code, message)) followed by `nxt`
SetStatusCall(l, code, message, nxt) ==
    [l EXCEPT !.pend = <<code, message>>, !.nxt = nxt]

\* _set_status, first assignment: self.status = status[0]
_set_status_code(t) ==
    /\ pc[t] = "st_code"
    /\ status' = loc[t].pend[1]
    /\ pc' = [pc EXCEPT ![t] = "st_msg"]
    /\ UNCHANGED <<variant, verbose, motion, connected, sock, handles, lock, status_string, loc, wire,
                   ncalls, nsent, everConnect, last>>

\* _set_status, second assignment: self.status_string = status[1]; then the
\* caller goes on (nxt) or returns
_set_status_string(t) ==
    /\ pc[t] = "st_msg"
    /\ status_string' = loc[t].pend[2]
    /\ IF loc[t].nxt = "ret"
       THEN Return(t, loc[t].res, loc[t].ret)
       ELSE /\ pc' = [pc EXCEPT ![t] = loc[t].nxt]
            /\ UNCHANGED <<loc, last>>
    /\ UNCHANGED <<variant, verbose, motion, connected, sock, handles, lock, status, wire,
                   ncalls, nsent, everConnect>>

\* the transport accepts a connection only to a port in range
PortInRange(port) == port.n >= 0 /\ port.n <= 65535

\* ------------------------------------------ examples/example_hardware_device.py
\* ConnectBranch as it would be if the serial kind fell through to the tcp code
ConnectBranch_serial_opens(valid, con_type) ==
    IF valid
    THEN IF con_type \in {"tcp", "serial"} THEN "tcp" ELSE "unknown"
    ELSE "invalid"

\* the if / elif / else ladder of connect: which branch runs
ConnectBranch(valid, con_type) ==
    IF valid
    THEN IF con_type = "tcp" THEN "tcp"
         ELSE IF con_type = "serial" THEN "serial"
         ELSE "unknown"
    ELSE "invalid"

\* connect(*args, con_type): validation and the choice of the transport kind
connect(t, inp) ==
    /\ CanCall(t)
    /\ variant = Canonical
    /\ LET args == inp[1]
           con_type == inp[2]
           l0 == [Enter(t, "connect", is_connected) EXCEPT !.args = args, !.ct = con_type,
                     !.valid = validate_connection_params(args)]
           branch == ConnectBranch(l0.valid, con_type)
       IN  IF branch = "tcp"
           THEN /\ pc' = [pc EXCEPT ![t] = "c_socket"]
                /\ loc' = [loc EXCEPT ![t] = l0]
           ELSE IF branch = "serial"
           THEN /\ pc' = [pc EXCEPT ![t] = "st_code"]
                /\ loc' = [loc EXCEPT ![t] = SetStatusCall([l0 EXCEPT !.res = "fail"],
                              -1, <<"Serial connection not implemented.">>, "ret")]
           ELSE IF branch = "unknown"
           THEN /\ pc' = [pc EXCEPT ![t] = "st_code"]
                /\ loc' = [loc EXCEPT ![t] = SetStatusCall([l0 EXCEPT !.res = "fail"],
                              -1, <<"Unknown con_type: ", con_type>>, "ret")]
           ELSE /\ pc' = [pc EXCEPT ![t] = "st_code"]
                /\ loc' = [loc EXCEPT ![t] = SetStatusCall([l0 EXCEPT !.res = "fail"],
                              -1, <<"Invalid connection params: ">> \o ReprTuple(args), "ret")]
    /\ ncalls' = ncalls + 1
    /\ everConnect' = TRUE
    /\ UNCHANGED <<variant, verbose, motion, shared, last>>

\* self.sock = socket.socket(socket.AF_INET, socket.SOCK_STREAM)
connect_socket(t) ==
    /\ pc[t] = "c_socket"
    /\ sock' = NewHandle
    /\ handles' = [handles EXCEPT ![NewHandle] = "open"]
    /\ pc' = [pc EXCEPT ![t] = "c_connect"]
    /\ UNCHANGED <<variant, verbose, motion, connected, lock, status, status_string, loc, wire,
                   ncalls, nsent, everConnect, last>>

\* self.sock.connect((host, port)): raises when self.sock is None by now, when
\* the socket is closed or already connected, when the port is out of range,
\* or when the peer cannot be reached
connect_connect(t) ==
    /\ pc[t] = "c_connect"
    /\ \/ /\ sock # None
          /\ handles[sock] = "open"
          /\ PortInRange(loc[t].args[2])
          /\ handles' = [handles EXCEPT ![sock] = "connected"]
          /\ pc' = [pc EXCEPT ![t] = "c_settimeout"]
          /\ UNCHANGED <<loc, last>>
       \/ /\ Return(t, "raise", Exc(IF sock = None THEN "AttributeError" ELSE "OSError"))
          /\ UNCHANGED handles
    /\ UNCHANGED <<variant, verbose, motion, connected, sock, lock, status, status_string, wire,
                   ncalls, nsent, everConnect>>

\* self.sock.settimeout(self.read_timeout)
connect_settimeout(t) ==
    /\ pc[t] = "c_settimeout"
    /\ IF sock = None
       THEN Return(t, "raise", Exc("AttributeError"))
       ELSE IF handles[sock] = "closed"
       THEN Return(t, "raise", Exc("OSError"))
       ELSE /\ pc' = [pc EXCEPT ![t] = "c_setconn"]
            /\ UNCHANGED <<loc, last>>
    /\ UNCHANGED <<variant, verbose, motion, shared, ncalls, everConnect>>

\* connect_set_connected as it would be if the flag were left alone
connect_set_connected_skipped(t) ==
    /\ pc[t] = "c_setconn"
    /\ pc' = [pc EXCEPT ![t] = "st_code"]
    /\ loc' = [loc EXCEPT ![t] = SetStatusCall(loc[t], 0,
                  <<"Connected to ", Fmt(loc[t].args[1]), ":", Fmt(loc[t].args[2])>>, "ret")]
    /\ UNCHANGED <<variant, verbose, motion, connected, sock, handles, lock, status, status_string, wire,
                   ncalls, nsent, everConnect, last>>

\* self._set_connected(True), then the info status
connect_set_connected(t) ==
    /\ pc[t] = "c_setconn"
    /\ connected' = TRUE
    /\ pc' = [pc EXCEPT ![t] = "st_code"]
    /\ loc' = [loc EXCEPT ![t] = SetStatusCall(loc[t], 0,
                  <<"Connected to ", Fmt(loc[t].args[1]), ":", Fmt(loc[t].args[2])>>, "ret")]
    /\ UNCHANGED <<variant, verbose, motion, sock, handles, lock, status, status_string, wire,
                   ncalls, nsent, everConnect, last>>

\* disconnect(): the is_connected() test
disconnect(t) ==
    /\ CanCall(t)
    /\ variant = Canonical
    /\ LET l0 == Enter(t, "disconnect", is_connected)
       IN  IF is_connected
           THEN /\ pc' = [pc EXCEPT ![t] = "d_close"]
                /\ loc' = [loc EXCEPT ![t] = l0]
           ELSE /\ pc' = [pc EXCEPT ![t] = "st_code"]
                /\ loc' = [loc EXCEPT ![t] = SetStatusCall(l0, 0,
                              <<"Already disconnected from device">>, "ret")]
    /\ ncalls' = ncalls + 1
    /\ UNCHANGED <<variant, verbose, motion, shared, everConnect, last>>

\* self.sock.close()
disconnect_close(t) ==
    /\ pc[t] = "d_close"
    /\ IF sock = None
       THEN /\ Return(t, "raise", Exc("AttributeError"))
            /\ UNCHANGED handles
       ELSE /\ handles' = [handles EXCEPT ![sock] = "closed"]
            /\ pc' = [pc EXCEPT ![t] = "d_null"]
            /\ loc' = [loc EXCEPT ![t].closes = @ + 1]
            /\ UNCHANGED <<last>>
    /\ UNCHANGED <<variant, verbose, motion, connected, sock, lock, status, status_string, wire,
                   ncalls, nsent, everConnect>>

\* self.sock = None
disconnect_null(t) ==
    /\ pc[t] = "d_null"
    /\ sock' = None
    /\ pc' = [pc EXCEPT ![t] = "d_setconn"]
    /\ UNCHANGED <<variant, verbose, motion, connected, handles, lock, status, status_string, loc, wire,
                   ncalls, nsent, everConnect, last>>

\* disconnect_set_connected as it would be if the flag were left alone
disconnect_set_connected_skipped(t) ==
    /\ pc[t] = "d_setconn"
    /\ pc' = [pc EXCEPT ![t] = "st_code"]
    /\ loc' = [loc EXCEPT ![t] = SetStatusCall(loc[t], 0, <<"Disconnected from device">>, "ret")]
    /\ UNCHANGED <<variant, verbose, motion, connected, sock, handles, lock, status, status_string, wire,
                   ncalls, nsent, everConnect, last>>

\* self._set_connected(False), then the info status
disconnect_set_connected(t) ==
    /\ pc[t] = "d_setconn"
    /\ connected' = FALSE
    /\ pc' = [pc EXCEPT ![t] = "st_code"]
    /\ loc' = [loc EXCEPT ![t] = SetStatusCall(loc[t], 0, <<"Disconnected from device">>, "ret")]
    /\ UNCHANGED <<variant, verbose, motion, sock, handles, lock, status, status_string, wire,
                   ncalls, nsent, everConnect, last>>

\* get_atomic_value(item): the three branches that choose retval
get_atomic_value(t, item) ==
    /\ CanCall(t)
    /\ variant = Canonical
    /\ LET l0 == [Enter(t, "get_atomic_value", is_connected) EXCEPT !.args = item]
       IN  IF ~is_connected
           THEN /\ pc' = [pc EXCEPT ![t] = "st_code"]
                /\ loc' = [loc EXCEPT ![t] = SetStatusCall(
                             [l0 EXCEPT !.res = "fail", !.ret = NoneValue],
                             -1, <<"Device is not connected">>, "g_final")]
           ELSE IF Contains(item, TEMPERATURE)
           THEN /\ pc' = [pc EXCEPT ![t] = "g_final"]
                /\ loc' = [loc EXCEPT ![t] = [l0 EXCEPT !.res = "ok", !.ret = TEMP]]
           ELSE /\ pc' = [pc EXCEPT ![t] = "st_code"]
                /\ loc' = [loc EXCEPT ![t] = SetStatusCall(
                             [l0 EXCEPT !.res = "fail", !.ret = NoneValue],
                             -1, <<"Unknown item '">> \o item \o <<"'">>, "g_final")]
    /\ ncalls' = ncalls + 1
    /\ UNCHANGED <<variant, verbose, motion, shared, everConnect, last>>

\* the closing self._set_status((0, "Atomic value retrieved")) and return retval
get_atomic_value_final(t) ==
    /\ pc[t] = "g_final"
    /\ pc' = [pc EXCEPT ![t] = "st_code"]
    /\ loc' = [loc EXCEPT ![t] = SetStatusCall(loc[t], 0, <<"Atomic value retrieved">>, "ret")]
    /\ UNCHANGED <<variant, verbose, motion, shared, ncalls, everConnect, last>>

\* Payload as it would be with a space put between the command and its
\* arguments
Payload_separated(command, args) ==
    IF Len(args) > 0 THEN command \o <<" ">> \o Join(<<" ">>, args) ELSE command

\* the text _send_command hands to sendall
Payload(command, args) ==
    IF Len(args) > 0 THEN command \o Join(<<" ">>, args) ELSE command

\* _send_command(command, *args): the is_connected() test and the payload
_send_command(t, command, args) ==
    /\ CanCall(t)
    /\ variant = Canonical
    /\ LET l0 == [Enter(t, "_send_command", is_connected) EXCEPT !.args = <<command, args>>]
       IN  IF ~is_connected
           THEN /\ pc' = [pc EXCEPT ![t] = "st_code"]
                /\ loc' = [loc EXCEPT ![t] = SetStatusCall(
                             [l0 EXCEPT !.res = "fail", !.ret = PyBool(FALSE)],
                             -1, <<"Device is not connected">>, "ret")]
           ELSE /\ pc' = [pc EXCEPT ![t] = "s_lock"]
                /\ loc' = [loc EXCEPT ![t] = [l0 EXCEPT !.payload = Payload(command, args)]]
    /\ ncalls' = ncalls + 1
    /\ UNCHANGED <<variant, verbose, motion, shared, everConnect, last>>

\* send_acquire as it would be if the with block did not wait for the lock
send_acquire_unguarded(t) ==
    /\ pc[t] = "s_lock"
    /\ lock' = t
    /\ pc' = [pc EXCEPT ![t] = "s_load"]
    /\ UNCHANGED <<variant, verbose, motion, connected, sock, handles, status, status_string, loc, wire,
                   ncalls, nsent, everConnect, last>>

\* `with self.lock:` entry: blocks until the lock is free
send_acquire(t) ==
    /\ pc[t] = "s_lock"
    /\ lock = 0
    /\ lock' = t
    /\ pc' = [pc EXCEPT ![t] = "s_load"]
    /\ UNCHANGED <<variant, verbose, motion, connected, sock, handles, status, status_string, loc, wire,
                   ncalls, nsent, everConnect, last>>

\* `self.sock.sendall`: the attribute load; AttributeError when self.sock is None
\* (the exception leaves the with block, which releases the lock)
send_load(t) ==
    /\ pc[t] = "s_load"
    /\ IF sock = None
       THEN /\ Return(t, "raise", Exc("AttributeError"))
            /\ lock' = 0
       ELSE /\ pc' = [pc EXCEPT ![t] = "s_write"]
            /\ loc' = [loc EXCEPT ![t].h = sock]
            /\ UNCHANGED <<lock, last>>
    /\ UNCHANGED <<variant, verbose, motion, connected, sock, handles, status, status_string, wire,
                   ncalls, nsent, everConnect>>

\* send_sendall as it would be if the lock were released by hand after
\* sendall, with nothing to release it when sendall raises
send_sendall_keeps_lock(t) ==
    /\ pc[t] = "s_write"
    /\ loc[t].pos < Len(loc[t].payload)
    /\ \/ /\ handles[loc[t].h] = "connected"
          /\ wire' = Append(wire, [t |-> t, i |-> loc[t].pos + 1,
                                   n |-> Len(loc[t].payload),
                                   b |-> loc[t].payload[loc[t].pos + 1]])
          /\ loc' = [loc EXCEPT ![t].pos = @ + 1]
          /\ UNCHANGED <<pc, lock, last>>
       \/ /\ Return(t, "raise", Exc("OSError"))
          /\ UNCHANGED <<lock, wire>>
    /\ UNCHANGED <<variant, verbose, motion, connected, sock, handles, status, status_string,
                   ncalls, nsent, everConnect>>

\* sendall(command.encode()): one byte reaches the transport per step; OSError
\* when the socket is not (or no longer) connected or the transport fails
send_sendall(t) ==
    /\ pc[t] = "s_write"
    /\ loc[t].pos < Len(loc[t].payload)
    /\ \/ /\ handles[loc[t].h] = "connected"
          /\ wire' = Append(wire, [t |-> t, i |-> loc[t].pos + 1,
                                   n |-> Len(loc[t].payload),
                                   b |-> loc[t].payload[loc[t].pos + 1]])
          /\ loc' = [loc EXCEPT ![t].pos = @ + 1]
          /\ UNCHANGED <<pc, lock, last>>
       \/ /\ Return(t, "raise", Exc("OSError"))
          /\ lock' = 0
          /\ UNCHANGED wire
    /\ UNCHANGED <<variant, verbose, motion, connected, sock, handles, status, status_string,
                   ncalls, nsent, everConnect>>

\* sendall has returned: the with block ends and releases the lock, then the
\* status call
send_release(t) ==
    /\ pc[t] = "s_write"
    /\ loc[t].pos = Len(loc[t].payload)
    /\ lock' = 0
    /\ nsent' = nsent + 1
    /\ pc' = [pc EXCEPT ![t] = "st_code"]
    /\ loc' = [loc EXCEPT ![t] = SetStatusCall([loc[t] EXCEPT !.res = "ok", !.ret = PyBool(TRUE)],
                  0, <<"Command sent">>, "ret")]
    /\ UNCHANGED <<variant, verbose, motion, connected, sock, handles, status, status_string, wire,
                   ncalls, everConnect, last>>

\* _read_reply as it would be without the is_connected() test
_read_reply_unchecked(t) ==
    /\ CanCall(t)
    /\ variant = Canonical
    /\ pc' = [pc EXCEPT ![t] = "r_load"]
    /\ loc' = [loc EXCEPT ![t] = Enter(t, "_read_reply", is_connected)]
    /\ ncalls' = ncalls + 1
    /\ UNCHANGED <<variant, verbose, motion, shared, everConnect, last>>

\* _read_reply(): the is_connected() test
_read_reply(t) ==
    /\ CanCall(t)
    /\ variant = Canonical
    /\ LET l0 == Enter(t, "_read_reply", is_connected)
       IN  IF ~is_connected
           THEN /\ pc' = [pc EXCEPT ![t] = "st_code"]
                /\ loc' = [loc EXCEPT ![t] = SetStatusCall(
                              [l0 EXCEPT !.res = "fail", !.ret = NoneValue],
                              -1, <<"Device is not connected">>, "ret")]
           ELSE /\ pc' = [pc EXCEPT ![t] = "r_load"]
                /\ loc' = [loc EXCEPT ![t] = l0]
    /\ ncalls' = ncalls + 1
    /\ UNCHANGED <<variant, verbose, motion, shared, everConnect, last>>

\* `self.sock.recv`: the attribute load; AttributeError when self.sock is None
read_load(t) ==
    /\ pc[t] = "r_load"
    /\ IF sock = None
       THEN Return(t, "raise", Exc("AttributeError"))
       ELSE /\ pc' = [pc EXCEPT ![t] = "r_recv"]
            /\ loc' = [loc EXCEPT ![t].h = sock]
            /\ UNCHANGED <<last>>
    /\ UNCHANGED <<variant, verbose, motion, shared, ncalls, everConnect>>

\* a _read_reply that gives the connection up when recv fails
read_recv_drops_connection(t) ==
    /\ pc[t] = "r_recv"
    /\ \/ /\ handles[loc[t].h] = "connected"
          /\ pc' = [pc EXCEPT ![t] = "st_code"]
          /\ loc' = [loc EXCEPT ![t] = SetStatusCall(
                        [loc[t] EXCEPT !.res = "ok", !.ret = PyStr("reply")],
                        0, <<"Reply received">>, "ret")]
          /\ UNCHANGED <<connected, last>>
       \/ /\ handles[loc[t].h] = "connected"
          /\ Return(t, "raise", Exc("socket.timeout"))
          /\ UNCHANGED connected
       \/ /\ Return(t, "raise", Exc("OSError"))
          /\ connected' = FALSE
    /\ UNCHANGED <<variant, verbose, motion, sock, handles, lock, status, status_string,
                   wire, nsent, ncalls, everConnect>>

\* recv(1024) blocks up to the read timeout: a reply arrives, or it raises
\* socket.timeout, or OSError (socket closed / not connected / transport error)
read_recv(t) ==
    /\ pc[t] = "r_recv"
    /\ \/ /\ handles[loc[t].h] = "connected"
          /\ pc' = [pc EXCEPT ![t] = "st_code"]
          /\ loc' = [loc EXCEPT ![t] = SetStatusCall(
                        [loc[t] EXCEPT !.res = "ok", !.ret = PyStr("reply")],
                        0, <<"Reply received">>, "ret")]
          /\ UNCHANGED <<last>>
       \/ /\ handles[loc[t].h] = "connected"
          /\ Return(t, "raise", Exc("socket.timeout"))
       \/ Return(t, "raise", Exc("OSError"))
    /\ UNCHANGED <<variant, verbose, motion, shared, ncalls, everConnect>>

\* ------------------------------------------------------------ example_device.py
\* what ExampleDevice.is_connected() returns as a call starts
ED_observed == ED_is_connected

\* ExampleDevice.connect(host, port): socket(), sock.connect, settimeout, self.connected = True
ED_connect(t, inp) ==
    /\ variant = DraftED
    /\ \/ /\ CanCall(t)
          /\ loc' = [loc EXCEPT ![t] = [Enter(t, "connect", ED_observed) EXCEPT !.args = inp]]
          /\ sock' = NewHandle
          /\ handles' = [handles EXCEPT ![NewHandle] = "open"]
          /\ pc' = [pc EXCEPT ![t] = "ED_c_connect"]
          /\ ncalls' = ncalls + 1
          /\ everConnect' = TRUE
          /\ UNCHANGED <<connected, last>>
       \/ /\ pc[t] = "ED_c_connect"
          /\ \/ /\ sock # None
                /\ handles[sock] = "open"
                /\ PortInRange(loc[t].args[2])
                /\ handles' = [handles EXCEPT ![sock] = "connected"]
                /\ pc' = [pc EXCEPT ![t] = "ED_c_settimeout"]
                /\ UNCHANGED <<loc, last>>
             \/ /\ Return(t, "raise", Exc(IF sock = None THEN "AttributeError" ELSE "OSError"))
                /\ UNCHANGED handles
          /\ UNCHANGED <<connected, sock, ncalls, everConnect>>
       \/ /\ pc[t] = "ED_c_settimeout"
          /\ IF sock = None
             THEN Return(t, "raise", Exc("AttributeError"))
             ELSE IF handles[sock] = "closed"
             THEN Return(t, "raise", Exc("OSError"))
             ELSE /\ pc' = [pc EXCEPT ![t] = "ED_c_setconn"]
                  /\ UNCHANGED <<loc, last>>
          /\ UNCHANGED <<connected, sock, handles, ncalls, everConnect>>
       \/ /\ pc[t] = "ED_c_setconn"
          /\ connected' = TRUE
          /\ Return(t, "ok", NoneValue)
          /\ UNCHANGED <<sock, handles, ncalls, everConnect>>
    /\ UNCHANGED <<variant, verbose, motion, lock, status, status_string, wire, nsent>>

\* ExampleDevice.disconnect(): sock.close(), self.sock = None, self.connected = False
ED_disconnect(t) ==
    /\ variant = DraftED
    /\ \/ /\ CanCall(t)
          /\ ncalls' = ncalls + 1
          /\ IF sock = None
             THEN /\ pc' = pc
                  /\ loc' = loc
                  /\ last' = Note([op |-> "disconnect", args |-> <<>>, res |-> "raise",
                                   ret |-> Exc("AttributeError"), conn0 |-> ED_observed,
                                   live0 |-> Live, closes |-> 0, pred |-> Brief(last)])
                  /\ UNCHANGED handles
             ELSE /\ handles' = [handles EXCEPT ![sock] = "closed"]
                  /\ pc' = [pc EXCEPT ![t] = "ED_d_null"]
                  /\ loc' = [loc EXCEPT ![t] = [Enter(t, "disconnect", ED_observed)
                                                   EXCEPT !.closes = 1]]
                  /\ UNCHANGED <<last>>
          /\ UNCHANGED <<connected, sock>>
       \/ /\ pc[t] = "ED_d_null"
          /\ sock' = None
          /\ pc' = [pc EXCEPT ![t] = "ED_d_setconn"]
          /\ UNCHANGED <<connected, handles, loc, ncalls, last>>
       \/ /\ pc[t] = "ED_d_setconn"
          /\ connected' = FALSE
          /\ Return(t, "ok", NoneValue)
          /\ UNCHANGED <<sock, handles, ncalls>>
    /\ UNCHANGED <<variant, verbose, motion, lock, status, status_string, wire, nsent, everConnect>>

\* --------------------------------------------------- example_hardware_device.py
\* HardwareDeviceBase.is_connected of the older hardware_device_base.py
EHD_is_connected == connected

\* what ExampleHardwareDevice.is_connected() returns as a call starts
EHD_observed == EHD_is_connected

\* ExampleHardwareDevice.connect(host, port): socket(), sock.connect, settimeout, self.set_connected(True)
EHD_connect(t, inp) ==
    /\ variant = DraftEHD
    /\ \/ /\ CanCall(t)
          /\ loc' = [loc EXCEPT ![t] = [Enter(t, "connect", EHD_observed) EXCEPT !.args = inp]]
          /\ sock' = NewHandle
          /\ handles' = [handles EXCEPT ![NewHandle] = "open"]
          /\ pc' = [pc EXCEPT ![t] = "EHD_c_connect"]
          /\ ncalls' = ncalls + 1
          /\ everConnect' = TRUE
          /\ UNCHANGED <<connected, last>>
       \/ /\ pc[t] = "EHD_c_connect"
          /\ \/ /\ sock # None
                /\ handles[sock] = "open"
                /\ PortInRange(loc[t].args[2])
                /\ handles' = [handles EXCEPT ![sock] = "connected"]
                /\ pc' = [pc EXCEPT ![t] = "EHD_c_settimeout"]
                /\ UNCHANGED <<loc, last>>
             \/ /\ Return(t, "raise", Exc(IF sock = None THEN "AttributeError" ELSE "OSError"))
                /\ UNCHANGED handles
          /\ UNCHANGED <<connected, sock, ncalls, everConnect>>
       \/ /\ pc[t] = "EHD_c_settimeout"
          /\ IF sock = None
             THEN Return(t, "raise", Exc("AttributeError"))
             ELSE IF handles[sock] = "closed"
             THEN Return(t, "raise", Exc("OSError"))
             ELSE /\ pc' = [pc EXCEPT ![t] = "EHD_c_setconn"]
                  /\ UNCHANGED <<loc, last>>
          /\ UNCHANGED <<connected, sock, handles, ncalls, everConnect>>
       \/ /\ pc[t] = "EHD_c_setconn"
          /\ connected' = TRUE
          /\ Return(t, "ok", NoneValue)
          /\ UNCHANGED <<sock, handles, ncalls, everConnect>>
    /\ UNCHANGED <<variant, verbose, motion, lock, status, status_string, wire, nsent>>

\* ExampleHardwareDevice.disconnect(): sock.close(), self.sock = None, self.set_connected(False)
EHD_disconnect(t) ==
    /\ variant = DraftEHD
    /\ \/ /\ CanCall(t)
          /\ ncalls' = ncalls + 1
          /\ IF sock = None
             THEN /\ pc' = pc
                  /\ loc' = loc
                  /\ last' = Note([op |-> "disconnect", args |-> <<>>, res |-> "raise",
                                   ret |-> Exc("AttributeError"), conn0 |-> EHD_observed,
                                   live0 |-> Live, closes |-> 0, pred |-> Brief(last)])
                  /\ UNCHANGED handles
             ELSE /\ handles' = [handles EXCEPT ![sock] = "closed"]
                  /\ pc' = [pc EXCEPT ![t] = "EHD_d_null"]
                  /\ loc' = [loc EXCEPT ![t] = [Enter(t, "disconnect", EHD_observed)
                                                   EXCEPT !.closes = 1]]
                  /\ UNCHANGED <<last>>
          /\ UNCHANGED <<connected, sock>>
       \/ /\ pc[t] = "EHD_d_null"
          /\ sock' = None
          /\ pc' = [pc EXCEPT ![t] = "EHD_d_setconn"]
          /\ UNCHANGED <<connected, handles, loc, ncalls, last>>
       \/ /\ pc[t] = "EHD_d_setconn"
          /\ connected' = FALSE
          /\ Return(t, "ok", NoneValue)
          /\ UNCHANGED <<sock, handles, ncalls>>
    /\ UNCHANGED <<variant, verbose, motion, lock, status, status_string, wire, nsent, everConnect>>

\* ExampleHardwareDevice.get_atomic_value(item) of the older driver: no status
EHD_get_atomic_value(t, item) ==
    /\ variant = DraftEHD
    /\ CanCall(t)
    /\ last' = Note([op |-> "get_atomic_value", args |-> item,
                     res |-> IF EHD_is_connected /\ Contains(item, TEMPERATURE)
                             THEN "ok" ELSE "fail",
                     ret |-> IF EHD_is_connected /\ Contains(item, TEMPERATURE)
                             THEN TEMP ELSE NoneValue,
                     conn0 |-> EHD_is_connected, live0 |-> Live, closes |-> 0,
                     pred |-> Brief(last)])
    /\ ncalls' = ncalls + 1
    /\ UNCHANGED <<variant, verbose, motion, shared, pc, loc, everConnect>>

\* ------------------------------------------ HardwareDeviceBase status reports
\* an argument left out of a call
Default == [ty |-> "default", s |-> "", n |-> 0]

\* a tuple handed back to the caller (its items are the thread's got)
PyTuple == [ty |-> "tuple", s |-> "", n |-> 0]

\* report_error / report_info / report_warning (message, errno=dflt): the
\* logger call, then self._set_status((errno, message)), whose isinstance test
\* lets only an (int, str) pair through to the two assignments
Report(t, op, dflt, message, errno) ==
    /\ variant = Canonical
    /\ LET code == IF errno = Default THEN PyInt(dflt) ELSE errno
           l0 == [Enter(t, op, is_connected) EXCEPT !.args = <<message, errno>>]
       IN  IF IsInt(code) /\ IsStr(message)
           THEN /\ pc' = [pc EXCEPT ![t] = "st_code"]
                /\ loc' = [loc EXCEPT ![t] = SetStatusCall(l0, code.n, <<message.s>>, "ret")]
                /\ UNCHANGED last
           ELSE /\ last' = Note([op |-> op, args |-> <<message, errno>>, res |-> "ok",
                                 ret |-> NoneValue, conn0 |-> is_connected, live0 |-> Live,
                                 closes |-> 0, pred |-> Brief(last)])
                /\ UNCHANGED <<pc, loc>>
    /\ ncalls' = ncalls + 1
    /\ UNCHANGED <<variant, verbose, motion, shared, everConnect>>

report_error(t, message, errno) ==
    /\ CanCall(t)
    /\ Report(t, "report_error", -1, message, errno)

report_info(t, message, errno) ==
    /\ CanCall(t)
    /\ Report(t, "report_info", 0, message, errno)

\* report_warning as it would be with report_error's default code
report_warning_default_error(t, message, errno) ==
    /\ CanCall(t)
    /\ Report(t, "report_warning", -1, message, errno)

report_warning(t, message, errno) ==
    /\ CanCall(t)
    /\ Report(t, "report_warning", 0, message, errno)

\* report_debug(message): the logger call only
report_debug(t, message) ==
    /\ CanCall(t)
    /\ variant = Canonical
    /\ last' = Note([op |-> "report_debug", args |-> <<message>>, res |-> "ok",
                     ret |-> NoneValue, conn0 |-> is_connected, live0 |-> Live,
                     closes |-> 0, pred |-> Brief(last)])
    /\ ncalls' = ncalls + 1
    /\ UNCHANGED <<variant, verbose, motion, shared, pc, loc, everConnect>>

\* get_status(): `return self.status, self.status_string`, the load of
\* self.status
get_status(t) ==
    /\ CanCall(t)
    /\ variant = Canonical
    /\ pc' = [pc EXCEPT ![t] = "gs_msg"]
    /\ loc' = [loc EXCEPT ![t] = [Enter(t, "get_status", is_connected) EXCEPT
                                     !.got = <<status, <<>>>>]]
    /\ ncalls' = ncalls + 1
    /\ UNCHANGED <<variant, verbose, motion, shared, everConnect, last>>

\* the load of self.status_string, which completes the tuple
get_status_string(t) ==
    /\ pc[t] = "gs_msg"
    /\ pc' = [pc EXCEPT ![t] = "gs_ret"]
    /\ loc' = [loc EXCEPT ![t].got = <<@[1], status_string>>]
    /\ UNCHANGED <<variant, verbose, motion, shared, ncalls, everConnect, last>>

\* the tuple is returned
get_status_return(t) ==
    /\ pc[t] = "gs_ret"
    /\ Return(t, "ok", PyTuple)
    /\ UNCHANGED <<variant, verbose, motion, shared, ncalls, everConnect>>

\* set_verbose(verbose): self.verbose = verbose, then the logger's level is
\* set and the new mode is logged
set_verbose(t, v) ==
    /\ CanCall(t)
    /\ variant = Canonical
    /\ verbose' = v
    /\ last' = Note([op |-> "set_verbose", args |-> <<PyBool(v)>>, res |-> "ok",
                     ret |-> NoneValue, conn0 |-> is_connected, live0 |-> Live,
                     closes |-> 0, pred |-> Brief(last)])
    /\ ncalls' = ncalls + 1
    /\ UNCHANGED <<variant, motion, shared, pc, loc, everConnect>>

\* a caller's d.is_connected(): `return self.connected`
call_is_connected(t) ==
    /\ CanCall(t)
    /\ variant = Canonical
    /\ last' = Note([op |-> "is_connected", args |-> <<>>, res |-> "ok",
                     ret |-> PyBool(is_connected), conn0 |-> is_connected,
                     live0 |-> Live, closes |-> 0, pred |-> Brief(last)])
    /\ ncalls' = ncalls + 1
    /\ UNCHANGED <<variant, motion, verbose, shared, pc, loc, everConnect>>

\* (message, errno) arguments of the report calls
ReportMessages == { PyStr("m"), PyStr("k"), PyInt(7) }
ReportCodes == { Default, PyInt(-2), PyInt(3), PyStr("e") }
ReportArgs == ReportMessages \X ReportCodes

\* the report calls of the concurrent specification: each has a code and a
\* message of its own, none of them the code or message __init__ leaves
RaceErrors == { <<PyStr("e"), Default>> }
RaceInfos == { <<PyStr("i"), PyInt(1)>> }
RaceWarnings == { <<PyStr("w"), PyInt(3)>> }

\* ------------------------------------------------ MotionContract (spec 4.5)
\* HardwareMotionBase declares the motion methods and leaves them abstract; the
\* stage driver its docstring points to is not among the sources.  The methods
\* are modelled from the state machine of spec 4.5, each as one step of a
\* single caller.
Motion == "hardware_motion_base.py"

Positions == 0..MaxPos
Limits == {l \in Positions \X Positions : l[1] <= l[2]}

\* the caller's note of a motion call
MotionNote(op, args, res, ret) ==
    [op |-> op, args |-> args, res |-> res, ret |-> ret, conn0 |-> connected,
     live0 |-> FALSE, closes |-> 0, pred |-> Brief(last)]

\* a motion call is made
MotionCall(op, args, res, ret) ==
    /\ variant = Motion
    /\ ncalls < MaxMotionCalls
    /\ ncalls' = ncalls + 1
    /\ last' = MotionNote(op, args, res, ret)
    /\ UNCHANGED <<variant, verbose, sock, handles, lock, status, status_string, pc, loc, wire,
                   nsent>>

\* connect(): Disconnected -> Connected(NotHomed, OpenLoop)
motion_connect ==
    /\ MotionCall("connect", <<>>, "ok", NoneValue)
    /\ connected' = TRUE
    /\ everConnect' = TRUE
    /\ motion' = IF connected THEN motion
                 ELSE [motion EXCEPT !.homed = FALSE, !.closed = FALSE]

\* disconnect(): back to Disconnected
motion_disconnect ==
    /\ MotionCall("disconnect", <<>>, "ok", NoneValue)
    /\ connected' = FALSE
    /\ motion' = [motion EXCEPT !.homed = FALSE, !.closed = FALSE]
    /\ UNCHANGED everConnect

\* home as it would be without the connection test
home_unchecked ==
    /\ MotionCall("home", <<>>, "ok", PyBool(TRUE))
    /\ motion' = [motion EXCEPT !.homed = TRUE]
    /\ UNCHANGED <<connected, everConnect>>

\* home(): NotHomed -> Homed only while connected, else NotConnectedError
home ==
    /\ IF connected
       THEN /\ MotionCall("home", <<>>, "ok", PyBool(TRUE))
            /\ motion' = [motion EXCEPT !.homed = TRUE]
       ELSE /\ MotionCall("home", <<>>, "fail", Exc("NotConnectedError"))
            /\ UNCHANGED motion
    /\ UNCHANGED <<connected, everConnect>>

\* close_loop(): OpenLoop -> ClosedLoop only while Homed, else NotHomedError
close_loop ==
    /\ IF motion.homed
       THEN /\ MotionCall("close_loop", <<>>, "ok", PyBool(TRUE))
            /\ motion' = [motion EXCEPT !.closed = TRUE]
       ELSE /\ MotionCall("close_loop", <<>>, "fail", Exc("NotHomedError"))
            /\ UNCHANGED motion
    /\ UNCHANGED <<connected, everConnect>>

\* set_pos(p): needs ClosedLoop and p within the limits, else
\* NotClosedLoopError or OutOfRangeError
set_pos(p) ==
    /\ IF ~motion.closed
       THEN /\ MotionCall("set_pos", p, "fail", Exc("NotClosedLoopError"))
            /\ UNCHANGED motion
       ELSE IF p < motion.limits[1] \/ p > motion.limits[2]
       THEN /\ MotionCall("set_pos", p, "fail", Exc("OutOfRangeError"))
            /\ UNCHANGED motion
       ELSE /\ MotionCall("set_pos", p, "ok", NoneValue)
            /\ motion' = [motion EXCEPT !.pos = p]
    /\ UNCHANGED <<connected, everConnect>>

\* get_pos(): queryable once connected
get_pos ==
    /\ IF connected
       THEN MotionCall("get_pos", <<>>, "ok", PyInt(motion.pos))
       ELSE MotionCall("get_pos", <<>>, "fail", Exc("NotConnectedError"))
    /\ UNCHANGED <<connected, everConnect, motion>>

\* get_limits(): queryable once connected
get_limits ==
    /\ IF connected
       THEN MotionCall("get_limits", <<>>, "ok", PyTuple)
       ELSE MotionCall("get_limits", <<>>, "fail", Exc("NotConnectedError"))
    /\ UNCHANGED <<connected, everConnect, motion>>

\* set_limits(limits)
set_limits(limits) ==
    /\ MotionCall("set_limits", limits, "ok", NoneValue)
    /\ motion' = [motion EXCEPT !.limits = limits]
    /\ UNCHANGED <<connected, everConnect>>

\* is_homed()
is_homed ==
    /\ MotionCall("is_homed", <<>>, "ok", PyBool(motion.homed))
    /\ UNCHANGED <<connected, everConnect, motion>>

\* is_closed_loop()
is_closed_loop ==
    /\ MotionCall("is_closed_loop", <<>>, "ok", PyBool(motion.closed))
    /\ UNCHANGED <<connected, everConnect, motion>>

\* ------------------------------------------------------------- specification
\* a caller starts a method of the canonical driver
Call(t, connectInputs, items, commandArgs) ==
    \/ \E inp \in connectInputs : connect(t, inp)
    \/ disconnect(t)
    \/ \E item \in items : get_atomic_value(t, item)
    \/ \E command \in Commands, args \in commandArgs : _send_command(t, command, args)
    \/ _read_reply(t)

\* a thread inside a method of the canonical driver takes its next step
Run(t) ==
    \/ connect_socket(t)
    \/ connect_connect(t)
    \/ connect_settimeout(t)
    \/ connect_set_connected(t)
    \/ disconnect_close(t)
    \/ disconnect_null(t)
    \/ disconnect_set_connected(t)
    \/ get_atomic_value_final(t)
    \/ send_acquire(t)
    \/ send_load(t)
    \/ send_sendall(t)
    \/ send_release(t)
    \/ read_load(t)
    \/ read_recv(t)
    \/ _set_status_code(t)
    \/ _set_status_string(t)

\* a call or step of one of the draft drivers
Draft(t) ==
    \/ \E inp \in DraftInputs : ED_connect(t, inp)
    \/ ED_disconnect(t)
    \/ \E inp \in DraftInputs : EHD_connect(t, inp)
    \/ EHD_disconnect(t)
    \/ \E item \in Items : EHD_get_atomic_value(t, item)

\* Threads run the canonical driver's methods concurrently; the callers keep
\* no note of finished calls.
CanonicalInit ==
    /\ variant = Canonical
    /\ connected = FALSE
    /\ sock = None
    /\ handles = [h \in Handles |-> "free"]
    /\ lock = 0
    /\ status = 0
    /\ status_string = <<>>
    /\ pc = [t \in Threads |-> "idle"]
    /\ loc = [t \in Threads |-> NoCall]
    /\ wire = <<>>
    /\ ncalls = 0
    /\ nsent = 0
    /\ everConnect = FALSE
    /\ verbose = FALSE
    /\ last = Untracked
    /\ motion = NoMotion

Next == \E t \in Threads : Call(t, RaceConnectInputs, RaceItems, RaceCommandArgs) \/ Run(t)

Spec == CanonicalInit /\ [][Next]_vars

\* One caller at a time (Init has the callers taking turns), any of the three
\* drivers, all inputs.
AllIdle == \A t \in Threads : pc[t] = "idle"

SeqNext == \E t \in Threads : Call(t, ConnectInputs, Items, CommandArgs) \/ Run(t) \/ Draft(t)

SeqSpec == Init /\ [][SeqNext]_vars

\* Threads connect, disconnect and send concurrently, and every thread that can
\* take a step of its call eventually takes one: the operating system runs
\* every runnable thread.  Nothing is assumed about when callers call.
SendCall(t) ==
    \/ connect(t, <<GoodArgs, "tcp">>)
    \/ disconnect(t)
    \/ \E command \in Commands : _send_command(t, command, <<>>)

SendRun(t) ==
    \/ connect_socket(t)
    \/ connect_connect(t)
    \/ connect_settimeout(t)
    \/ connect_set_connected(t)
    \/ disconnect_close(t)
    \/ disconnect_null(t)
    \/ disconnect_set_connected(t)
    \/ send_acquire(t)
    \/ send_load(t)
    \/ send_sendall(t)
    \/ send_release(t)
    \/ _set_status_code(t)
    \/ _set_status_string(t)

SendNext == \E t \in Threads : SendCall(t) \/ SendRun(t)

SendSpec ==
    /\ CanonicalInit
    /\ [][SendNext]_vars
    /\ \A t \in Threads : WF_vars(SendRun(t))

\* A caller starts one of the base class's status methods
StatusCall(t, errors, infos, warnings) ==
    \/ \E a \in errors : report_error(t, a[1], a[2])
    \/ \E a \in infos : report_info(t, a[1], a[2])
    \/ \E a \in warnings : report_warning(t, a[1], a[2])
    \/ report_debug(t, PyStr("d"))
    \/ get_status(t)

\* a thread inside a status method takes its next step
StatusRun(t) ==
    \/ get_status_string(t)
    \/ get_status_return(t)
    \/ _set_status_code(t)
    \/ _set_status_string(t)

\* threads report statuses and read the status concurrently
StatusNext ==
    \E t \in Threads : StatusCall(t, RaceErrors, RaceInfos, RaceWarnings) \/ StatusRun(t)

StatusSpec == CanonicalInit /\ [][StatusNext]_vars

\* one caller at a time reports statuses and reads the status, all arguments
StatusSeqInit == Init /\ variant = Canonical

StatusSeqNext ==
    \E t \in Threads : StatusCall(t, ReportArgs, ReportArgs, ReportArgs) \/ StatusRun(t)

StatusSeqSpec == StatusSeqInit /\ [][StatusSeqNext]_vars

\* one caller at a time makes every call of the canonical driver: the
\* connection and transport calls, the status calls, set_verbose and
\* is_connected
FrameConnectInputs == RaceConnectInputs \cup { <<<<PyStr("h")>>, "tcp">> }
FrameItems == { TEMPERATURE, <<"b", "o", "g">> }
FrameReports == { <<PyStr("m"), Default>>, <<PyInt(7), PyInt(3)>> }

FrameCall(t) ==
    \/ Call(t, FrameConnectInputs, FrameItems, RaceCommandArgs)
    \/ StatusCall(t, FrameReports, FrameReports, FrameReports)
    \/ \E v \in BOOLEAN : set_verbose(t, v)
    \/ call_is_connected(t)

FrameNext == \E t \in Threads : FrameCall(t) \/ Run(t) \/ StatusRun(t)

FrameSpec == StatusSeqInit /\ [][FrameNext]_vars

\* a motion device after construction: disconnected, at some position, with
\* some limits
MotionInit ==
    /\ variant = Motion
    /\ connected = FALSE
    /\ sock = None
    /\ handles = [h \in Handles |-> "free"]
    /\ lock = 0
    /\ status = 0
    /\ status_string = <<>>
    /\ pc = [t \in Threads |-> "idle"]
    /\ loc = [t \in Threads |-> NoCall]
    /\ wire = <<>>
    /\ ncalls = 0
    /\ nsent = 0
    /\ everConnect = FALSE
    /\ verbose = FALSE
    /\ last = NoRecord
    /\ \E p \in Positions, l \in Limits :
          motion = [homed |-> FALSE, closed |-> FALSE, pos |-> p, limits |-> l]

MotionNext ==
    \/ motion_connect
    \/ motion_disconnect
    \/ home
    \/ close_loop
    \/ \E p \in Positions : set_pos(p)
    \/ get_pos
    \/ get_limits
    \/ \E l \in Limits : set_limits(l)
    \/ is_homed
    \/ is_closed_loop

MotionSpec == MotionInit /\ [][MotionNext]_vars

\* ------------------------------------------------------------------- claims
\* what is_connected() of the constructed driver returns
IsConnected ==
    IF variant = DraftED THEN ED_is_connected
    ELSE IF variant = DraftEHD THEN EHD_is_connected
    ELSE is_connected

\* sockets the driver has opened and nobody has closed
OpenHandles == {h \in Handles : handles[h] \in {"open", "connected"}}

\* threads inside sendall
InTransportWrite == {t \in Threads : pc[t] = "s_write"}

\* sendall has put its last byte on the wire and is about to return
WriteDone(t) == pc[t] = "s_write" /\ loc[t].pos = Len(loc[t].payload)

\* the writes on the wire that ran to their last byte
CompleteWrites == {k \in 1..Len(wire) : wire[k].i = wire[k].n}

\* the bytes of the write that ends at position k of the wire
WriteEndingAt(k) == [j \in 1..wire[k].n |-> wire[k - wire[k].n + j].b]

RacePayloads == {Payload(command, args) : command \in Commands, args \in RaceCommandArgs}

\* C1: concurrent _send_command calls are serialized at the transport: at most
\* one thread is inside sendall at any moment; every byte on the wire after
\* the first byte of a write directly follows the previous byte of the same
\* write (writes never interleave); a thread inside sendall has its bytes so
\* far as the tail of the wire; every completed write is one caller's whole
\* payload; and there are exactly as many completed writes as sendall calls
\* that ran to completion.
C1_SerializedWrites ==
    /\ Cardinality(InTransportWrite) <= 1
    /\ \A k \in 1..Len(wire) :
          wire[k].i > 1 =>
              /\ k > 1
              /\ wire[k - 1].t = wire[k].t
              /\ wire[k - 1].n = wire[k].n
              /\ wire[k - 1].i = wire[k].i - 1
    /\ \A t \in InTransportWrite :
          /\ loc[t].pos <= Len(wire)
          /\ \A j \in 1..loc[t].pos :
                wire[Len(wire) - loc[t].pos + j] =
                    [t |-> t, i |-> j, n |-> Len(loc[t].payload), b |-> loc[t].payload[j]]
    /\ \A k \in CompleteWrites : k >= wire[k].n /\ WriteEndingAt(k) \in RacePayloads
    /\ Cardinality(CompleteWrites) = nsent + Cardinality({t \in Threads : WriteDone(t)})

\* C1 witness: two _send_command calls overlap in time on a connected driver
\* and both of their writes have reached the wire whole, one of them two bytes
\* long.
C1_Witness ==
    \E t, u \in Threads :
        /\ t # u
        /\ loc[t].op = "_send_command"
        /\ pc[t] \in {"st_code", "st_msg"}
        /\ loc[t].res = "ok"
        /\ WriteDone(u)
        /\ Len(loc[u].payload) = 2
        /\ Cardinality(CompleteWrites) = 2
        /\ connected

\* a thread is between _send_command's connected-check and the end of sendall
SendInFlight(t) == pc[t] \in {"s_lock", "s_load", "s_write"}

\* C3: while a _send_command is between its connected-check and the end of
\* its transport write, the transport handle is neither nulled nor closed:
\* self.sock is a socket that is not closed, and so is the socket the sender
\* has loaded for sendall.
C3_HandleHeldDuringSend ==
    \A t \in Threads :
        SendInFlight(t) =>
            /\ sock # None
            /\ handles[sock] # "closed"
            /\ pc[t] = "s_write" => handles[loc[t].h] # "closed"

\* a _send_command or _read_reply call that found is_connected() false
Refused(l) == l.op \in {"_send_command", "_read_reply"} /\ ~l.conn0

\* the state of a thread whose call was refused: it is on its way out through
\* the error status, with the failure value (False / None) as its return value
RefusedState(t) ==
    Refused(loc[t]) =>
        /\ pc[t] \in {"st_code", "st_msg"}
        /\ loc[t].nxt = "ret"
        /\ loc[t].res = "fail"
        /\ loc[t].ret = IF loc[t].op = "_send_command" THEN PyBool(FALSE) ELSE NoneValue
        /\ loc[t].pend[1] < 0

\* a step of a refused call touches neither the lock nor the transport nor the
\* connection state; and a call counts as refused exactly when the connection
\* flag is false as it starts
RefusedStep(t) ==
    /\ (pc[t] = "idle" /\ loc'[t].op \in {"_send_command", "_read_reply"}) =>
          loc'[t].conn0 = connected
    /\ (pc'[t] # pc[t] /\ (Refused(loc[t]) \/ Refused(loc'[t]))) =>
          UNCHANGED <<connected, sock, handles, lock, wire, nsent>>

\* C2: a _send_command or _read_reply that finds is_connected() false returns
\* the failure value (False / None) through the error status, never enters the
\* lock-protected section, never reads or writes the transport handle, and
\* leaves the connection state as it is.
C2_NotConnectedRefused ==
    /\ [](\A t \in Threads : RefusedState(t))
    /\ [][\A t \in Threads : RefusedStep(t)]_vars

\* C2 witness: a refused _send_command and a refused _read_reply are on their
\* way out together, the error status already written by one of them.
C2_Witness ==
    \E t, u \in Threads :
        /\ loc[t].op = "_send_command" /\ ~loc[t].conn0 /\ pc[t] = "st_msg"
        /\ loc[u].op = "_read_reply" /\ ~loc[u].conn0 /\ pc[u] = "st_code"
        /\ status = -1
        /\ ~connected /\ sock = None /\ wire = <<>>

\* C4: is_connected() is false before any connect call has been made, and is
\* false once a disconnect call has returned (callers taking turns), whatever
\* calls came before it.
C4_DisconnectedOutsideWindow ==
    /\ ~everConnect => ~IsConnected
    /\ (AllIdle /\ last.op = "disconnect" /\ last.res # "raise") => ~IsConnected

\* C4 witness: a disconnect that found the driver connected has returned, the
\* call before it was a successful call made while connected, and
\* is_connected() is false.
C4_Witness ==
    /\ AllIdle
    /\ last.op = "disconnect" /\ last.res = "ok" /\ last.conn0 /\ last.live0
    /\ last.pred.op \in {"connect", "_send_command", "_read_reply", "get_atomic_value"}
    /\ last.pred.res = "ok"
    /\ ~IsConnected

\* C5: two disconnect calls in succession on a connected ExampleHardwareDevice
\* (the canonical driver or its draft) both succeed, the first one closes the
\* transport exactly once and the second one not at all, and after the second
\* the driver is as the first one left it: not connected and without a
\* transport handle.
C5_DisconnectTwice ==
    (variant \in {Canonical, DraftEHD}
        /\ last.op = "disconnect" /\ last.pred.op = "disconnect"
        /\ last.pred.conn0 /\ last.pred.live0) =>
        /\ last.pred.res = "ok"
        /\ last.res = "ok"
        /\ last.pred.closes = 1
        /\ last.closes = 0
        /\ AllIdle => (~IsConnected /\ sock = None)

\* at most one socket is open and self.sock refers to it
SingleHandle ==
    /\ Cardinality(OpenHandles) <= 1
    /\ \A h \in OpenHandles : sock = h

\* a connect call made while the driver was connected
Reconnect(l) == l.op = "connect" /\ l.conn0 /\ l.live0

\* C6: connect of the canonical driver on an already connected driver is an
\* idempotent success that opens no second transport handle: while such a
\* call runs and after it has ended, at most one transport handle is open and
\* it is the one self.sock refers to, and the call ends in success.
C6_ReconnectOpensNothing ==
    variant = Canonical =>
        /\ \A t \in Threads : Reconnect(loc[t]) => SingleHandle
        /\ (AllIdle /\ Reconnect(last)) => (SingleHandle /\ last.res = "ok")

\* C7: once a call of the canonical driver has ended, get_status() matches how
\* it ended: a negative code with a non-empty message after a failing call
\* (failure value returned, error reported or exception raised), a
\* non-negative code after a successful one.
C7_StatusMatchesOutcome ==
    (variant = Canonical /\ AllIdle /\ last.op # "none") =>
        /\ last.res \in {"fail", "raise"} => (status < 0 /\ status_string # <<>>)
        /\ last.res = "ok" => status >= 0

\* C8: get_atomic_value of the canonical driver: not connected, it returns no
\* value and leaves an error status; connected and asked for the temperature
\* item, it returns the numeric value; connected and asked for an unknown
\* item, it returns no value and leaves a negative status code.
C8_AtomicValueTotal ==
    (variant = Canonical /\ AllIdle /\ last.op = "get_atomic_value") =>
        /\ ~last.conn0 => (last.ret = NoneValue /\ status < 0)
        /\ (last.conn0 /\ Contains(last.args, TEMPERATURE)) => last.ret.ty \in {"float", "int"}
        /\ (last.conn0 /\ ~Contains(last.args, TEMPERATURE)) =>
              (last.ret = NoneValue /\ status < 0)

\* a connect call that failed validation or chose a kind other than tcp
Rejected(l) == variant = Canonical /\ l.op = "connect" /\ (~l.valid \/ l.ct # "tcp")

\* C9: a connect call of the canonical driver that fails parameter validation
\* or selects a transport kind other than "tcp" opens no transport and leaves
\* the connection flag, the transport handle and every socket as they were,
\* connected or not: each of its steps leaves them unchanged and it only ever
\* writes the error status.
C9_RejectedConnectFrame ==
    /\ [](\A t \in Threads :
            Rejected(loc[t]) =>
                (pc[t] \in {"st_code", "st_msg"} /\ loc[t].nxt = "ret" /\ loc[t].pend[1] < 0))
    /\ [][\A t \in Threads :
            (pc'[t] # pc[t] /\ (Rejected(loc[t]) \/ Rejected(loc'[t]))) =>
                UNCHANGED <<connected, sock, handles>>]_vars

\* C9 witness: on a connected driver, after a connect with invalid parameters
\* has been turned away, a connect with a con_type that is neither "tcp" nor
\* "serial" is on its way out, the driver still connected on its one socket.
C9_Witness ==
    \E t \in Threads :
        /\ variant = Canonical
        /\ loc[t].op = "connect" /\ loc[t].valid /\ loc[t].ct = "udp" /\ pc[t] = "st_msg"
        /\ loc[t].conn0 /\ loc[t].live0
        /\ last.op = "connect" /\ last.res = "fail" /\ last.conn0 /\ last.live0
        /\ connected /\ sock # None /\ handles[sock] = "connected"
        /\ Cardinality(OpenHandles) = 1

\* the tuples the specification says validation accepts
AcceptedBySpec(args) ==
    /\ Len(args) >= 2
    /\ IsStr(args[1])
    /\ args[2].ty = "int"
    /\ args[2].n >= 0

\* C10: validate_connection_params accepts a tuple if and only if it has at
\* least two elements, the first a string and the second a non-negative
\* integer.
C10_ValidationIff ==
    \A t \in Threads :
        (variant = Canonical /\ loc[t].op = "connect") =>
            (loc[t].valid <=> AcceptedBySpec(loc[t].args))

\* a connect call of the canonical driver with valid parameters and con_type
\* "tcp" has ended without an error: its transport acquisition succeeded
ConnectSucceeded ==
    /\ variant = Canonical /\ AllIdle
    /\ last.op = "connect" /\ last.res = "ok"

\* C11: a connect call with valid parameters and con_type "tcp" whose transport
\* acquisition succeeds ends with the driver connected, self.sock not None and
\* get_status() = (0, "Connected to <host>:<port>") for the host and port given.
C11_ConnectSuccessState ==
    ConnectSucceeded =>
        /\ IsConnected
        /\ sock # None
        /\ status = 0
        /\ status_string = <<"Connected to ", Fmt(last.args[1]), ":", Fmt(last.args[2])>>

\* C11 witness: connect("h", 9) has ended on a driver that was not connected
\* before, and the socket it opened is connected.
C11_Witness ==
    /\ ConnectSucceeded
    /\ last.args = GoodArgs /\ ~last.conn0
    /\ connected /\ sock = 1 /\ handles[1] = "connected"
    /\ status_string = <<"Connected to ", "h", ":", "9">>

\* a connect, _send_command or _read_reply call of the canonical driver has
\* ended in a transport error (OSError out of sock.connect, sendall or recv)
EndedInTransportError ==
    /\ variant = Canonical /\ AllIdle
    /\ last.op \in {"connect", "_send_command", "_read_reply"}
    /\ last.res = "raise" /\ last.ret = Exc("OSError")

\* C12: a transport I/O error during connect, _send_command or _read_reply
\* forces the connection flag to false before the error reaches the caller:
\* no such call has ended in a transport error with is_connected() still true.
C12_TransportErrorDisconnects ==
    EndedInTransportError => ~IsConnected

\* C13: in every state, between operations and inside connect and disconnect,
\* the transport handle (self.sock) of the canonical driver and of
\* ExampleDevice is not None if and only if the driver is connected.
C13_HandleIffConnected ==
    variant \in {Canonical, DraftED} => ((sock # None) <=> IsConnected)

\* C14: once a disconnect of the canonical driver has returned, whatever
\* connect calls came before it (successful, failed during transport
\* acquisition, repeated), no socket the driver opened is still open.
C14_DisconnectReleasesAll ==
    (variant = Canonical /\ AllIdle /\ last.op = "disconnect" /\ last.res # "raise") =>
        OpenHandles = {}

\* threads inside recv
InTransportRead == {t \in Threads : pc[t] = "r_recv"}

\* C15: at most one send/receive is in flight on the device: no two threads
\* are inside recv together, and no thread is inside recv while another is
\* inside sendall.
C15_OneExchangeInFlight ==
    /\ Cardinality(InTransportRead) <= 1
    /\ InTransportRead # {} => InTransportWrite = {}

\* the (code, message) pair a report call with arguments a writes
ReportedPair(dflt, a) == <<(IF a[2] = Default THEN dflt ELSE a[2].n), <<a[1].s>>>>

\* the pairs the report calls of the concurrent specification write
RacePairs ==
    {ReportedPair(-1, a) : a \in RaceErrors}
        \cup {ReportedPair(0, a) : a \in RaceInfos \cup RaceWarnings}

\* the code of one report call with the message of another
MixedPairs ==
    {<<pq[1][1], pq[2][2]>> : pq \in {x \in RacePairs \X RacePairs : x[1] # x[2]}}

\* C16: the status code and message are updated together as a pair: with
\* threads reporting statuses in any interleaving, the pair get_status()
\* returns is never the code of one report call with the message of another.
C16_StatusPairAtomic ==
    \A t \in Threads : pc[t] = "gs_ret" => loc[t].got \notin MixedPairs

\* the step is a call of the motion method op
MotionStep(op) == ncalls' = ncalls + 1 /\ last'.op = op

InLimits(p) == p >= motion.limits[1] /\ p <= motion.limits[2]

\* what the motion contract asks of one step
MotionOrderingStep ==
    /\ MotionStep("home") =>
        /\ ~connected => (last'.res = "fail" /\ UNCHANGED motion)
        /\ connected => (last'.res = "ok" /\ motion'.homed)
    /\ (motion'.homed /\ ~motion.homed) => (MotionStep("home") /\ connected)
    /\ MotionStep("close_loop") =>
        /\ (last'.res = "ok") <=> motion.homed
        /\ (last'.res = "ok") => motion'.closed
        /\ (last'.res # "ok") => UNCHANGED motion
    /\ (motion'.closed /\ ~motion.closed) => (MotionStep("close_loop") /\ motion.homed)
    /\ MotionStep("set_pos") =>
        /\ (last'.res = "ok") <=> (motion.closed /\ InLimits(last'.args))
        /\ (last'.res = "ok") => (motion'.pos = last'.args)
        /\ (last'.res # "ok") => (motion'.pos = motion.pos)
    /\ (motion'.pos # motion.pos) => MotionStep("set_pos")
    /\ (MotionStep("get_pos") /\ last.op = "set_pos" /\ last.res = "ok") =>
        (last'.res = "ok" /\ last'.ret = PyInt(last.args))

\* C17: the motion contract keeps its order: home() fails while the device is
\* not connected and makes it Homed only while connected; close_loop()
\* succeeds only while Homed; set_pos(p) succeeds only in closed loop with p
\* within the limits, and get_pos() then returns p; otherwise set_pos fails and
\* leaves the position alone.
C17_MotionOrdering == [][MotionOrderingStep]_vars

\* C17 witness: connect, home, close_loop, set_pos(p) within the limits and
\* get_pos have been called in turn, p is not where the device started, and
\* get_pos returned p.
C17_Witness ==
    /\ variant = Motion
    /\ last.op = "get_pos" /\ last.res = "ok" /\ last.pred.op = "set_pos"
    /\ last.pred.res = "ok"
    /\ ncalls = 5
    /\ motion.homed /\ motion.closed /\ motion.pos = 2 /\ last.ret = PyInt(2)
    /\ motion.limits = <<1, 2>>

\* C18: the send lock is released on every way out of _send_command, a failed
\* write included: the lock is only ever held by a thread inside the with
\* block, and with every runnable thread eventually running, a thread waiting
\* for the lock in _send_command eventually gets it and its call ends.
C18_LockAlwaysReleased ==
    /\ [](lock # 0 => pc[lock] \in {"s_load", "s_write"})
    /\ \A t \in Threads : (pc[t] = "s_lock") ~> (pc[t] = "idle")

\* C18 witness: a thread waits for the lock in _send_command while another
\* holds it inside sendall, its write not yet done.
C18_Witness ==
    \E t, u \in Threads :
        /\ pc[t] = "s_lock"
        /\ lock = u /\ pc[u] = "s_write"
        /\ loc[u].pos < Len(loc[u].payload)
        /\ connected /\ handles[loc[u].h] = "connected"

\* the arguments in the order given, a single space between neighbours
RECURSIVE SpaceJoined(_)
SpaceJoined(args) ==
    IF args = <<>> THEN <<>>
    ELSE IF Len(args) = 1 THEN args[1]
    ELSE SpaceJoined(SubSeq(args, 1, Len(args) - 1)) \o <<" ">> \o args[Len(args)]

\* the bytes the write of thread t has put on the wire
Written(t) == [j \in 1..loc[t].pos |-> wire[Len(wire) - loc[t].pos + j].b]

Reports == {"report_error", "report_info", "report_warning"}

\* the last finished call was a report call with a string message and an
\* integer code (given or left to its default)
Reported ==
    /\ last.op \in Reports
    /\ last.args[1].ty = "str"
    /\ last.args[2] = Default \/ last.args[2].ty = "int"

\* the (code, message) of that call
LastReported ==
    << IF last.args[2] # Default THEN last.args[2].n
       ELSE IF last.op = "report_error" THEN -1 ELSE 0,
       <<last.args[1].s>> >>

\* C20: the status register keeps no history: after any series of report_error,
\* report_info and report_warning calls made in turn with an integer code and
\* a string message, the status is, and get_status() returns, exactly the
\* (code, message) of the last call, the code defaulting to -1 for
\* report_error and to 0 for report_info and report_warning; report_debug
\* never changes the status.
C20_LastReportWins ==
    /\ [](Reported =>
            /\ AllIdle => <<status, status_string>> = LastReported
            /\ \A t \in Threads : pc[t] = "gs_ret" => loc[t].got = LastReported)
    /\ [][(ncalls' = ncalls + 1 /\ last'.op = "report_debug") =>
              UNCHANGED <<status, status_string>>]_vars

\* C20 witness: after report_info and then report_error("m") with the code
\* left out, get_status() is about to return (-1, "m").
C20_Witness ==
    \E t \in Threads :
        /\ pc[t] = "gs_ret"
        /\ last.op = "report_error" /\ last.args = <<PyStr("m"), Default>>
        /\ last.pred.op = "report_info"
        /\ loc[t].got = <<-1, <<"m">>>>

\* the step is a whole report call whose code is not an integer or whose
\* message is not a string
IllTypedReportStep ==
    /\ ncalls' = ncalls + 1 /\ UNCHANGED pc
    /\ last'.op \in Reports
    /\ ~(/\ last'.args[1].ty = "str"
         /\ last'.args[2] = Default \/ last'.args[2].ty \in {"int", "bool"})

\* C21: a status report whose code is not an integer or whose message is not
\* a string fails fast as a programming error (the call raises) and leaves
\* the stored (code, message) pair as it was.
C21_IllTypedReportFailsFast ==
    [][IllTypedReportStep =>
          (last'.res = "raise" /\ UNCHANGED <<status, status_string>>)]_vars

\* the method whose call the step belongs to: a call that is one step long
\* leaves only the caller's note, any other step moves its thread
StepOp ==
    IF pc' = pc /\ loc' = loc THEN last'.op
    ELSE LET t == CHOOSE u \in Threads : pc'[u] # pc[u] \/ loc'[u] # loc[u]
         IN  IF pc[t] = "idle" THEN loc'[t].op ELSE loc[t].op

\* the calls the frame is stated for
Framed ==
    {"_send_command", "_read_reply", "get_atomic_value", "get_status", "is_connected",
     "set_verbose", "report_error", "report_info", "report_warning", "report_debug"}

FrameStep ==
    /\ StepOp \in Framed => UNCHANGED <<connected, sock>>
    /\ (connected' # connected \/ sock' # sock) => StepOp \in {"connect", "disconnect"}

\* C22: only connect and disconnect change the connection flag or the
\* transport handle; every step of _send_command, _read_reply,
\* get_atomic_value, get_status, is_connected, set_verbose and the report_*
\* calls leaves self.connected and self.sock as they were, whether the call
\* succeeds, fails or raises.
C22_OnlyConnectAndDisconnectChangeConnection == [][FrameStep]_vars

\* connected, with the transport handle in place, after a query of an unknown
\* item has failed
C22_Witness ==
    /\ last.op = "get_atomic_value" /\ last.res = "fail" /\ last.conn0
    /\ connected /\ sock # None
    /\ AllIdle

====
